---- MODULE Spec2Model ----
(***************************************************************************)
(* RO membrane simulator (functions.py, app.py).                           *)
(*                                                                         *)
(* Three state machines share this module:                                 *)
(*   SpecSim   one call of simulate_ro_logmean, stepped through the        *)
(*             registry check, the temperature correction, the element     *)
(*             loop (one step per solver pass) and the result mapping;     *)
(*   SpecHist  one session appending results to the history CSV and        *)
(*             loading it back;                                            *)
(*   SpecConc  several sessions running append_result_to_csv at once.      *)
(*                                                                         *)
(* Python floats are modelled as fixed-point numbers: the integer n stands *)
(* for n / Scale.  Products and quotients are the exact ones rounded       *)
(* toward zero to the grid.                                                *)
(***************************************************************************)
EXTENDS Integers, Sequences, FiniteSets, TLC

\* ------------------------------------------------------------------------
\* Fixed-point arithmetic
\* ------------------------------------------------------------------------

\* grid resolution: 1 unit = 1e-6
Limb == 10 * 100
Scale == Limb * Limb

Abs(x) == IF x < 0 THEN -x ELSE x
Sgn(x) == IF x < 0 THEN -1 ELSE 1
Max(a, b) == IF a >= b THEN a ELSE b

\* a number written as whole + micro/1e6
Num(whole, micro) == whole * Scale + micro

\* a * b, for a, b >= 0, without leaving 32 bits
MulPos(a, b) ==
    LET a1 == a \div Limb
        a0 == a % Limb
        b1 == b \div Limb
        b0 == b % Limb
    IN  a1 * b1 + (a1 * b0 + a0 * b1 + (a0 * b0) \div Limb) \div Limb

\* Python float '*'
FMul(a, b) == Sgn(a) * Sgn(b) * MulPos(Abs(a), Abs(b))

RECURSIVE Pow10(_)
Pow10(n) == IF n = 0 THEN 1 ELSE 10 * Pow10(n - 1)

\* the next `digits` decimal digits of r / b
RECURSIVE FracDigits(_, _, _)
FracDigits(r, b, digits) ==
    IF digits = 0 THEN 0
    ELSE LET d == (r * 10) \div b
             r2 == (r * 10) % b
             tail == FracDigits(r2, b, digits - 1)
         IN  d * Pow10(digits - 1) + tail

DivPos(a, b) == (a \div b) * Scale + FracDigits(a % b, b, 6)

\* Python float '/', for b # 0
FDiv(a, b) == Sgn(a) * Sgn(b) * DivPos(Abs(a), Abs(b))

\* ln 2 = 0.693147
Ln2 == Num(0, 693147)

\* z + z^3/3 + z^5/5 + ... up to the term of exponent `last`
RECURSIVE AtanhSeries(_, _, _, _)
AtanhSeries(zpow, z2, k, last) ==
    IF k > last THEN 0
    ELSE zpow \div k + AtanhSeries(MulPos(zpow, z2), z2, k + 2, last)

\* ln m for 1 <= m < 2:  2 * atanh((m - 1) / (m + 1))
LnMantissa(m) ==
    LET z == DivPos(m - Scale, m + Scale)
    IN  2 * AtanhSeries(z, MulPos(z, z), 1, 13)

\* math.log(x) for x > 0
RECURSIVE FLog(_)
FLog(x) ==
    IF x >= 2 * Scale THEN Ln2 + FLog(x \div 2)
    ELSE IF x < Scale THEN FLog(2 * x) - Ln2
    ELSE LnMantissa(x)


\* (a - b) / math.log(a / b) for a, b > 0, a # b.  Where |ln(a/b)| < 0.01 the
\* quotient is evaluated by its expansion ((a+b)/2) * (1 - ln(a/b)^2 / 12),
\* which a double resolves and the grid would not.
FLogMean(a, b) ==
    LET l == FLog(a) - FLog(b)
        mid == (a + b) \div 2
    IN  IF Abs(l) < Num(0, 10000)
        THEN mid - FMul(mid, FMul(l, l)) \div 12
        ELSE FDiv(a - b, l)

\* ------------------------------------------------------------------------
\* Program constants (functions.py)
\* ------------------------------------------------------------------------

\* 1e-12 and 1e-10 lie below the grid: x > 1e-12 is x > 0 for a grid value
Eps12 == 0
Eps10 == 0
\* 1e-5
Floor5 == 10
\* range(5)
NumPasses == 5
Qp_seed == Num(1, 0)
Cp_seed == Num(50, 0)
ref_temp == Num(25, 0)
factor_per_deg == Num(0, 30000)
\* 3600.0, a whole number: the product with it is exact
SecPerHour == 3600

\* ------------------------------------------------------------------------
\* Inputs
\* ------------------------------------------------------------------------

MaxElements == 3

\* the membrane registry handed to simulate_ro_logmean (membrane_specs.yaml)
membrane_data ==
    [p \in {"CPA5-LD", "ESPA2-LD", "ESPA2-MAX", "TEST-NEG"} |->
        [A_value |-> Num(0, 2000),
         B_value |-> Num(0, 1000),
         area_m2 |-> Num(0, 37000),
         default_dP_element |->
            CASE p = "CPA5-LD" -> Num(0, 300000)
              [] p = "ESPA2-LD" -> Num(0, 500000)
              [] p = "ESPA2-MAX" -> 0
              [] OTHER -> -Num(0, 300000),
         default_osm_coef |-> Num(0, 800)]]

ProductNames == DOMAIN membrane_data \cup {"UNKNOWN"}
FeedFlows == {0, Num(0, 500000), Num(2, 0)}
FeedTds == {0, Num(100, 0)}
FeedPress == {-Num(1, 0), 0, Num(1, 0), Num(2, 500000)}
Temperatures == {-Num(10, 0), 0, Num(25, 0)}

ArgSet ==
    [feed_flow : FeedFlows, feed_tds : FeedTds, feed_press : FeedPress,
     temperature : Temperatures, product_name : ProductNames,
     num_elements : 1..MaxElements]

VARIABLES
    pc,        \* where the call of simulate_ro_logmean stands
    args,      \* its arguments
    env,       \* its locals
    el,        \* the locals of the running calc_element_logmean
    ret,       \* the tuples calc_element_logmean returned, in order
    work,      \* what has been computed so far
    result,    \* the mapping returned
    raised     \* the exception raised

simvars == <<pc, args, env, el, ret, work, result, raised>>

NoEnv == [set |-> FALSE]
NoEl == [set |-> FALSE]
NoWork == [tcf |-> 0, elements |-> 0, passes |-> 0]

\* ------------------------------------------------------------------------
\* calc_element_logmean
\* ------------------------------------------------------------------------

\* lines 22-25: the locals before the loop
calc_element_enter(qf_in, cf_in, pin, dP_element) ==
    [set |-> TRUE, qf_in |-> qf_in, cf_in |-> cf_in, pin |-> pin,
     p_out_approx |-> Max(pin - dP_element, 0),
     Qp_guess |-> Qp_seed, Cp_guess |-> Cp_seed, k |-> 0]

\* lines 38-39
floor_p_out(p) == IF p < Floor5 THEN Floor5 ELSE p

\* line 40: what math.log(pin / p_out_approx) and the division do
pressure_log_raises(pin, p_out_approx) ==
    IF pin <= 0 THEN "ValueError: math domain error"
    ELSE IF pin = p_out_approx THEN "ZeroDivisionError"
    ELSE "none"

\* lines 45-46: what math.log(cf_in / Cc_guess) does
conc_log_raises(cf_in, Cc_guess) ==
    IF Abs(cf_in - Cc_guess) > Eps10 /\ cf_in <= 0
    THEN "ValueError: math domain error"
    ELSE "none"

\* lines 28-35
guess_Cc(e) ==
    LET Qc_guess == e.qf_in - e.Qp_guess
        salt_in == FMul(e.qf_in, e.cf_in)
        salt_p == FMul(e.Qp_guess, e.Cp_guess)
        salt_c == salt_in - salt_p
    IN  IF Qc_guess > Eps12 THEN FDiv(salt_c, Qc_guess) ELSE e.cf_in

\* lines 28-66: one pass of the loop; raised # "none" when the pass raises
calc_element_pass(e, area_m2, A_value, B_value, osm_coef) ==
    LET p_out_approx == floor_p_out(e.p_out_approx)
        praise == pressure_log_raises(e.pin, p_out_approx)
        Cc0 == guess_Cc(e)
        Cc_guess == IF Cc0 < Floor5 THEN Floor5 ELSE Cc0
        craise == conc_log_raises(e.cf_in, Cc_guess)
    IN  IF praise # "none" THEN [raised |-> praise, e |-> e]
        ELSE IF craise # "none" THEN [raised |-> craise, e |-> e]
        ELSE
        LET p_avg == FLogMean(e.pin, p_out_approx)
            cf_avg == IF Abs(e.cf_in - Cc_guess) > Eps10
                      THEN FLogMean(e.cf_in, Cc_guess)
                      ELSE e.cf_in
            pi_f_avg == FMul(osm_coef, cf_avg)
            NDP == Max(p_avg - pi_f_avg, 0)
            A_h == A_value * SecPerHour
            B_h == B_value * SecPerHour
            Qp_new == FMul(FMul(A_h, NDP), area_m2)
            Js == FMul(FMul(B_h, cf_avg), area_m2)
            Cp_new == IF Qp_new > Eps12 THEN FDiv(Js, Qp_new) ELSE e.cf_in
        IN  [raised |-> "none",
             e |-> [e EXCEPT !.p_out_approx = p_out_approx,
                             !.Qp_guess = Qp_new,
                             !.Cp_guess = Cp_new,
                             !.k = e.k + 1]]

\* lines 74-77
final_Cc(qf_in, cf_in, Qp, Cp) ==
    LET Qc == qf_in - Qp
        salt_in == FMul(qf_in, cf_in)
        salt_p == FMul(Qp, Cp)
        salt_c == salt_in - salt_p
    IN  IF Qc > Eps12 THEN FDiv(salt_c, Qc) ELSE cf_in

\* line 79 returning the floored approximation of line 39
final_p_out_floored(pin, dP_element, p_out_approx) == floor_p_out(p_out_approx)

\* line 79 with the drop added
final_p_out_added(pin, dP_element, p_out_approx) == Max(pin + dP_element, 0)

\* line 79
final_p_out(pin, dP_element, p_out_approx) == Max(pin - dP_element, 0)

\* lines 68-81 with the concentrate flow clamped at 0
calc_element_return_clamped(e, dP_element) ==
    [qf_in |-> e.qf_in, cf_in |-> e.cf_in, pin |-> e.pin, passes |-> e.k,
     Qp |-> e.Qp_guess, Cp |-> e.Cp_guess,
     Qc |-> Max(e.qf_in - e.Qp_guess, 0),
     Cc |-> final_Cc(e.qf_in, e.cf_in, e.Qp_guess, e.Cp_guess),
     p_out |-> final_p_out(e.pin, dP_element, e.p_out_approx)]

\* lines 68-81: the tuple returned (with the inlet it was computed from)
calc_element_return(e, dP_element) ==
    [qf_in |-> e.qf_in, cf_in |-> e.cf_in, pin |-> e.pin, passes |-> e.k,
     Qp |-> e.Qp_guess, Cp |-> e.Cp_guess,
     Qc |-> e.qf_in - e.Qp_guess,
     Cc |-> final_Cc(e.qf_in, e.cf_in, e.Qp_guess, e.Cp_guess),
     p_out |-> final_p_out(e.pin, dP_element, e.p_out_approx)]


\* ------------------------------------------------------------------------
\* The history file and the sessions using it
\* ------------------------------------------------------------------------

VARIABLES
    file_exists,  \* os.path.isfile(csv_path)
    file_chars,   \* the characters of the file
    clock,        \* datetime.now(), in seconds
    sess,         \* per session: where its append_result_to_csv stands
    appended,     \* the rows whose append call returned, in that order
    loaded        \* what the last load_calculation_history returned

histvars == <<file_exists, file_chars, clock, sess, appended, loaded>>

vars == <<simvars, histvars>>

\* ------------------------------------------------------------------------
\* simulate_ro_logmean
\* ------------------------------------------------------------------------

ResultKeys ==
    {"Selected_Product", "FeedFlow_m3/h", "FeedTDS_mg/L", "Temperature_degC",
     "Number_of_Elements", "PermeateFlow_m3/h", "Recovery_%", "PermeateTDS_mg/L",
     "ConcentrateFlow_m3/h", "ConcentrateTDS_mg/L", "FinalPressure_bar"}

\* lines 106-111
temperature_factor(temperature) ==
    LET delta_t == temperature - ref_temp
        tcf == Num(1, 0) + FMul(factor_per_deg, delta_t)
    IN  IF tcf < 0 THEN 0 ELSE tcf

\* line 151
recovery_pct(total_permeate, feed_flow) ==
    IF feed_flow > Eps12
    THEN FMul(FDiv(total_permeate, feed_flow), Num(100, 0))
    ELSE 0

\* lines 153-156
permeate_tds(total_salt_perm, total_permeate) ==
    IF total_permeate > Eps12 THEN FDiv(total_salt_perm, total_permeate) ELSE 0

\* the registry check placed after the temperature correction
simulate_check_late ==
    /\ pc = "call"
    /\ IF args.product_name \notin DOMAIN membrane_data
       THEN /\ pc' = "raised"
            /\ raised' = "ValueError: product not found"
            /\ work' = [work EXCEPT !.tcf = @ + 1]
       ELSE /\ pc' = "spec"
            /\ UNCHANGED <<raised, work>>
    /\ UNCHANGED <<args, env, el, ret, result, histvars>>

\* lines 95-96: the registry check
simulate_check ==
    /\ pc = "call"
    /\ IF args.product_name \notin DOMAIN membrane_data
       THEN /\ pc' = "raised"
            /\ raised' = "ValueError: product not found"
       ELSE /\ pc' = "spec"
            /\ UNCHANGED raised
    /\ UNCHANGED <<args, env, el, ret, work, result, histvars>>

\* lines 98-121: the spec's values, the temperature correction, the running stream
simulate_setup ==
    /\ pc = "spec"
    /\ LET spec == membrane_data[args.product_name]
           tcf == temperature_factor(args.temperature)
       IN  env' = [set |-> TRUE,
                   area_m2 |-> spec.area_m2,
                   dP_element |-> spec.default_dP_element,
                   osm_coef |-> spec.default_osm_coef,
                   A_corr |-> FMul(spec.A_value, tcf),
                   B_corr |-> FMul(spec.B_value, tcf),
                   q_in |-> args.feed_flow,
                   c_in |-> args.feed_tds,
                   p_in |-> args.feed_press,
                   total_permeate |-> 0,
                   total_salt_perm |-> 0,
                   i |-> 0]
    /\ work' = [work EXCEPT !.tcf = @ + 1]
    /\ pc' = "loop"
    /\ UNCHANGED <<args, el, ret, result, raised, histvars>>

\* lines 123-133: the loop takes another element and calls the solver
simulate_call_element ==
    /\ pc = "loop"
    /\ env.i < args.num_elements
    /\ el' = calc_element_enter(env.q_in, env.c_in, env.p_in, env.dP_element)
    /\ pc' = "pass"
    /\ UNCHANGED <<args, env, ret, work, result, raised, histvars>>

\* lines 27-66: one pass of the solver's loop
element_pass ==
    /\ pc = "pass"
    /\ el.k < NumPasses
    /\ LET r == calc_element_pass(el, env.area_m2, env.A_corr, env.B_corr,
                                  env.osm_coef)
       IN  IF r.raised # "none"
           THEN /\ pc' = "raised"
                /\ raised' = r.raised
                /\ UNCHANGED <<el, work>>
           ELSE /\ el' = r.e
                /\ work' = [work EXCEPT !.passes = @ + 1]
                /\ UNCHANGED <<pc, raised>>
    /\ UNCHANGED <<args, env, ret, result, histvars>>

\* lines 68-81 and 134-139: the solver returns, the loop body takes the tuple
element_return ==
    /\ pc = "pass"
    /\ el.k = NumPasses
    /\ LET t == calc_element_return(el, env.dP_element)
       IN  /\ ret' = Append(ret, t)
           /\ env' = [env EXCEPT
                        !.total_permeate = @ + t.Qp,
                        !.total_salt_perm = @ + FMul(t.Qp, t.Cp),
                        !.q_in = t.Qc,
                        !.c_in = t.Cc,
                        !.p_in = t.p_out,
                        !.i = @ + 1]
    /\ el' = NoEl
    /\ work' = [work EXCEPT !.elements = @ + 1]
    /\ pc' = "loop"
    /\ UNCHANGED <<args, result, raised, histvars>>

\* lines 141-161: the result mapping
simulate_result(a, e) ==
    [k \in ResultKeys |->
        CASE k = "Selected_Product" -> a.product_name
          [] k = "FeedFlow_m3/h" -> a.feed_flow
          [] k = "FeedTDS_mg/L" -> a.feed_tds
          [] k = "Temperature_degC" -> a.temperature
          [] k = "Number_of_Elements" -> a.num_elements
          [] k = "PermeateFlow_m3/h" -> e.total_permeate
          [] k = "Recovery_%" -> recovery_pct(e.total_permeate, a.feed_flow)
          [] k = "PermeateTDS_mg/L" ->
                permeate_tds(e.total_salt_perm, e.total_permeate)
          [] k = "ConcentrateFlow_m3/h" -> e.q_in
          [] k = "ConcentrateTDS_mg/L" -> e.c_in
          [] OTHER -> e.p_in]

simulate_return ==
    /\ pc = "loop"
    /\ env.i = args.num_elements
    /\ result' = simulate_result(args, env)
    /\ pc' = "done"
    /\ UNCHANGED <<args, env, el, ret, work, raised, histvars>>

NoResult == [k \in ResultKeys |-> IF k = "Selected_Product" THEN "" ELSE 0]

HistIdle ==
    /\ file_exists = FALSE
    /\ file_chars = <<>>
    /\ clock = 0
    /\ sess = <<>>
    /\ appended = <<>>
    /\ loaded = <<>>

InitSim ==
    /\ pc = "call"
    /\ args \in ArgSet
    /\ env = NoEnv
    /\ el = NoEl
    /\ ret = <<>>
    /\ work = NoWork
    /\ result = NoResult
    /\ raised = "none"
    /\ HistIdle

NextSim ==
    \/ simulate_check
    \/ simulate_setup
    \/ simulate_call_element
    \/ element_pass
    \/ element_return
    \/ simulate_return

SpecSim == InitSim /\ [][NextSim]_vars


\* ------------------------------------------------------------------------
\* Properties of simulate_ro_logmean (checked under SpecSim)
\* ------------------------------------------------------------------------

Registered == args.product_name \in DOMAIN membrane_data
Returned == pc = "done"
Raised == pc = "raised"
dP_of_call == membrane_data[args.product_name].default_dP_element

\* C1: the solver has no failure mode: a call with a registered product never
\* ends in an exception, whatever the flow, concentration and pressure.
C1_NoFailureMode == Registered => ~Raised

\* the pressure after n elements, from the feed pressure and the drop alone
RECURSIVE ChainPressure(_, _, _)
ChainPressure(p, dP, n) ==
    IF n = 0 THEN p ELSE Max(ChainPressure(p, dP, n - 1) - dP, 0)

\* C2: pressure chaining: every outlet pressure returned is
\* max(inlet - dP_element, 0) without the 1e-5 floor, every inlet pressure is
\* the previous outlet (the feed pressure for element 1), and
\* FinalPressure_bar is the last outlet: a function of feed_press, dP_element
\* and num_elements alone.
C2_PressureChaining ==
    /\ \A j \in 1..Len(ret) :
          /\ ret[j].p_out = Max(ret[j].pin - dP_of_call, 0)
          /\ ret[j].pin = IF j = 1 THEN args.feed_press ELSE ret[j - 1].p_out
          /\ ret[j].p_out = ChainPressure(args.feed_press, dP_of_call, j)
    /\ Returned =>
          /\ Len(ret) = args.num_elements
          /\ result["FinalPressure_bar"] = ret[Len(ret)].p_out
          /\ result["FinalPressure_bar"] =
                ChainPressure(args.feed_press, dP_of_call, args.num_elements)

\* a returned chain whose last element floored its outlet pressure at 0
C2_Witness ==
    /\ Returned
    /\ Len(ret) >= 2
    /\ ret[1].p_out = args.feed_press - dP_of_call
    /\ ret[Len(ret)].pin > 0
    /\ ret[Len(ret)].pin - dP_of_call <= 0
    /\ result["FinalPressure_bar"] = 0

\* what the grid's rounding of Cp, Cc and the products can amount to
MassTol(t) == Abs(t.Qc) \div Scale + 3

MassClosed(t) ==
    Abs(FMul(t.Qp, t.Cp) + FMul(t.Qc, t.Cc) - FMul(t.qf_in, t.cf_in))
        <= MassTol(t)

\* C3: per-element mass conservation: every returned tuple satisfies
\* Qp*Cp + Qc*Cc = qf_in*cf_in up to rounding, also when the final
\* concentrate flow is <= 1e-12 and Cc is the inlet concentration.
C3_MassConservation == \A j \in 1..Len(ret) : MassClosed(ret[j])

\* the balance does close, up to rounding, whenever the concentrate flows
MassClosedWhenConcentrateFlows ==
    \A j \in 1..Len(ret) : ret[j].Qc > Eps12 => MassClosed(ret[j])

\* C4: an unregistered product fails with the not-found error before any
\* numeric work: no temperature correction, no solver pass, no result, no
\* default; a registered product never gets the not-found error.
C4_NotFoundBeforeWork ==
    /\ ~Registered =>
          /\ pc \in {"call", "raised"}
          /\ Raised => raised = "ValueError: product not found"
          /\ work = NoWork
          /\ env = NoEnv
          /\ el = NoEl
          /\ ret = <<>>
          /\ result = NoResult
    /\ Registered => raised # "ValueError: product not found"

C4_Witness ==
    /\ ~Registered
    /\ Raised
    /\ raised = "ValueError: product not found"

\* C6: zero-feed guard: a call with a registered product and feed_flow = 0
\* returns, for any feed_tds, feed_press, temperature and num_elements, a
\* result whose Recovery_% is 0, and raises nothing.
C6_ZeroFeedGuard ==
    (Registered /\ args.feed_flow = 0) =>
        /\ ~Raised
        /\ Returned => result["Recovery_%"] = 0

\* when the call does return, Recovery_% is the guarded quotient
RecoveryWhenReturned ==
    Returned =>
        result["Recovery_%"] =
            IF args.feed_flow > Eps12
            THEN FMul(FDiv(result["PermeateFlow_m3/h"], args.feed_flow),
                      Num(100, 0))
            ELSE 0

\* C7: pressure never increases along the chain, for every feed_press and
\* every default_dP_element of the registry.
C7_PressureNonIncreasing ==
    \A j \in 1..Len(ret) : ret[j].p_out <= ret[j].pin

\* C7 amended: with default_dP_element >= 0 pressure never increases along
\* the chain, for every feed_press.
C7_NonIncreasingForNonNegativeDrop ==
    (Registered /\ dP_of_call >= 0) =>
        /\ \A j \in 1..Len(ret) :
              /\ ret[j].p_out <= ret[j].pin
              /\ ret[j].p_out <= args.feed_press
        /\ Returned => result["FinalPressure_bar"] <= args.feed_press

C7_Witness ==
    /\ Returned
    /\ dP_of_call > 0
    /\ Len(ret) >= 2
    /\ \A j \in 1..Len(ret) : ret[j].p_out < ret[j].pin
    /\ result["FinalPressure_bar"] < args.feed_press

\* C8: every call with a registered product ends having solved exactly
\* num_elements elements of exactly 5 passes each, 5 * num_elements in all.
C8_FivePassesPerElement ==
    (Registered /\ (Returned \/ Raised)) =>
        /\ work.elements = args.num_elements
        /\ work.passes = NumPasses * args.num_elements
        /\ \A j \in 1..Len(ret) : ret[j].passes = NumPasses

\* a call that returns has run 5 passes in each of its num_elements elements
PassesWhenReturned ==
    Returned =>
        /\ work.elements = args.num_elements
        /\ work.passes = NumPasses * args.num_elements
        /\ \A j \in 1..Len(ret) : ret[j].passes = NumPasses

\* C10: overall flow balance: PermeateFlow + ConcentrateFlow = FeedFlow in
\* every result, also when an element's permeate flow exceeds its inlet flow.
C10_FlowBalance ==
    /\ env # NoEnv => env.total_permeate + env.q_in = args.feed_flow
    /\ \A j \in 1..Len(ret) : ret[j].Qc = ret[j].qf_in - ret[j].Qp
    /\ Returned =>
          result["PermeateFlow_m3/h"] + result["ConcentrateFlow_m3/h"]
              = result["FeedFlow_m3/h"]

\* a returned chain in which an element's permeate flow exceeded its inlet flow
C10_Witness ==
    /\ Returned
    /\ Len(ret) >= 2
    /\ \E j \in 1..Len(ret) : ret[j].Qp > ret[j].qf_in /\ ret[j].Qc < 0
    /\ result["ConcentrateFlow_m3/h"] < 0
    /\ result["PermeateFlow_m3/h"] > result["FeedFlow_m3/h"]


\* ------------------------------------------------------------------------
\* Text: a string is a sequence of characters.  "," QUOTE CR LF are the
\* characters the csv module treats specially; any other token stands for
\* a run of ordinary characters.
\* ------------------------------------------------------------------------

QUOTE == "QUOTE"
CR == "CR"
LF == "LF"
COMMA == ","

DigitChar(d) == <<"0", "1", "2", "3", "4", "5", "6", "7", "8", "9">>[d + 1]

\* str(n) for an int n >= 0
RECURSIVE NatText(_)
NatText(n) ==
    IF n < 10 THEN <<DigitChar(n)>>
    ELSE NatText(n \div 10) \o <<DigitChar(n % 10)>>

\* str(n) for an int
IntText(n) == IF n < 0 THEN <<"-">> \o NatText(-n) ELSE NatText(n)

\* the digits of a fraction f / 10^width, without trailing zeros
RECURSIVE FracText(_, _)
FracText(f, width) ==
    IF f = 0 \/ width = 0 THEN <<>>
    ELSE <<DigitChar(f \div Pow10(width - 1))>>
            \o FracText(f % Pow10(width - 1), width - 1)

\* repr(x) of a float x = n / Scale, n >= 0: positional from 1e-4 up,
\* exponent notation below
FloatTextPos(n) ==
    IF n = 0 THEN <<"0", ".", "0">>
    ELSE IF n < 10 THEN <<DigitChar(n), "e", "-", "0", "6">>
    ELSE IF n < 100 THEN
        (IF n % 10 = 0 THEN <<DigitChar(n \div 10)>>
         ELSE <<DigitChar(n \div 10), ".", DigitChar(n % 10)>>)
            \o <<"e", "-", "0", "5">>
    ELSE NatText(n \div Scale) \o <<".">>
            \o (IF n % Scale = 0 THEN <<"0">> ELSE FracText(n % Scale, 6))

FloatText(n) == IF n < 0 THEN <<"-">> \o FloatTextPos(-n) ELSE FloatTextPos(n)

\* Python values: [t |-> "str" | "int" | "float", v |-> ...]
PyStrVal(chars) == [t |-> "str", v |-> chars]
PyInt(n) == [t |-> "int", v |-> n]
PyFloat(n) == [t |-> "float", v |-> n]

\* the text csv.writer writes for a value: a str as it is, else str(value)
PyStr(x) ==
    CASE x.t = "str" -> x.v
      [] x.t = "int" -> IntText(x.v)
      [] OTHER -> FloatText(x.v)

\* ------------------------------------------------------------------------
\* csv.writer / csv.reader (dialect excel) and text-mode files
\* ------------------------------------------------------------------------

Has(chars, set) == \E i \in 1..Len(chars) : chars[i] \in set

RECURSIVE DoubleQuotes(_)
DoubleQuotes(chars) ==
    IF chars = <<>> THEN <<>>
    ELSE (IF Head(chars) = QUOTE THEN <<QUOTE, QUOTE>> ELSE <<Head(chars)>>)
            \o DoubleQuotes(Tail(chars))

\* QUOTE_MINIMAL: a field holding a delimiter, a quote or a line end is quoted
csv_field(chars) ==
    IF Has(chars, {COMMA, QUOTE, CR, LF})
    THEN <<QUOTE>> \o DoubleQuotes(chars) \o <<QUOTE>>
    ELSE chars

RECURSIVE JoinFields(_)
JoinFields(cells) ==
    IF Len(cells) = 0 THEN <<>>
    ELSE IF Len(cells) = 1 THEN csv_field(cells[1])
    ELSE csv_field(cells[1]) \o <<COMMA>> \o JoinFields(Tail(cells))

\* writer.writerow(cells): the fields joined, lineterminator '\r\n'
csv_line(cells) == JoinFields(cells) \o <<CR, LF>>

\* reading a file opened without newline='': '\r\n' and '\r' become '\n'
universal_newlines(chars) ==
    LET kept == SelectSeq([i \in 1..Len(chars) |-> i],
                          LAMBDA i : ~(chars[i] = LF /\ i > 1
                                        /\ chars[i - 1] = CR))
    IN  [n \in 1..Len(kept) |->
            IF chars[kept[n]] = CR THEN LF ELSE chars[kept[n]]]

\* csv.reader's state machine: the state after character c
csv_step(state, c) ==
    CASE state = "in_quoted" ->
            IF c = QUOTE THEN "quote_in_quoted" ELSE "in_quoted"
      [] state = "quote_in_quoted" /\ c = QUOTE -> "in_quoted"
      [] state \in {"start_record", "start_field"} /\ c = QUOTE -> "in_quoted"
      [] OTHER ->
            IF c \in {CR, LF} THEN "start_record"
            ELSE IF c = COMMA THEN "start_field"
            ELSE "in_field"

\* the state the machine is in before each of chars[lo..hi], entering in s0
RECURSIVE csv_states(_, _, _, _)
csv_states(chars, lo, hi, s0) ==
    IF lo > hi THEN <<>>
    ELSE IF lo = hi THEN <<s0>>
    ELSE LET mid == (lo + hi) \div 2
             left == csv_states(chars, lo, mid, s0)
             right == csv_states(chars, mid + 1, hi,
                                 csv_step(left[Len(left)], chars[mid]))
         IN  left \o right

\* whether the machine adds chars[i], read in state st, to the current field
csv_adds(st, c) ==
    CASE st \in {"start_record", "start_field"} -> c # QUOTE
      [] st = "in_quoted" -> c # QUOTE
      [] OTHER -> TRUE

\* csv.reader: the rows of fields in a text
csv_reader(chars) ==
    LET n == Len(chars)
        st == csv_states(chars, 1, n, "start_record")
        all == [i \in 1..n |-> i]
        final == IF n = 0 THEN "start_record" ELSE csv_step(st[n], chars[n])
        \* where a record ends: a line end outside quotes, or the end of the
        \* text with a record under way
        ends == SelectSeq(all, LAMBDA i : chars[i] \in {CR, LF}
                                            /\ st[i] # "in_quoted")
                  \o (IF final = "start_record" THEN <<>> ELSE <<n + 1>>)
        first(k) == IF k = 1 THEN 1 ELSE ends[k - 1] + 1
        row(k) ==
            LET lo == first(k)
                hi == ends[k] - 1
                seps == SelectSeq(all, LAMBDA i : lo <= i /\ i <= hi
                                                    /\ chars[i] = COMMA
                                                    /\ st[i] # "in_quoted")
                from(j) == IF j = 1 THEN lo ELSE seps[j - 1] + 1
                to(j) == IF j = Len(seps) + 1 THEN hi ELSE seps[j] - 1
                cell(j) ==
                    LET at == SelectSeq(all, LAMBDA i : from(j) <= i
                                                         /\ i <= to(j)
                                                         /\ csv_adds(st[i],
                                                                     chars[i]))
                    IN  [m \in 1..Len(at) |-> chars[at[m]]]
            IN  IF lo > hi THEN <<>>
                ELSE [j \in 1..(Len(seps) + 1) |-> cell(j)]
    IN  [k \in 1..Len(ends) |-> row(k)]

\* the value of a key the row is too short for (restval)
None == <<"None">>

\* csv.DictReader: the first row names the fields; empty rows are skipped
dict_rows(rows) ==
    IF rows = <<>> THEN <<>>
    ELSE LET fieldnames == rows[1]
             data == SelectSeq(Tail(rows), LAMBDA r : r # <<>>)
         IN  [n \in 1..Len(data) |->
                [k \in {fieldnames[j] : j \in 1..Len(fieldnames)} |->
                    LET j == CHOOSE j \in 1..Len(fieldnames) :
                                /\ fieldnames[j] = k
                                /\ \A m \in (j + 1)..Len(fieldnames) :
                                      fieldnames[m] # k
                    IN  IF j <= Len(data[n]) THEN data[n][j] ELSE None]]


\* ------------------------------------------------------------------------
\* append_result_to_csv, load_calculation_history
\* ------------------------------------------------------------------------

MaxAppends == 2
MaxClock == 2
NumSessions == 2

\* lines 172-185
fieldnames ==
    <<"Timestamp", "Selected_Product", "FeedFlow_m3/h", "FeedTDS_mg/L",
      "Temperature_degC", "Number_of_Elements", "PermeateFlow_m3/h",
      "Recovery_%", "PermeateTDS_mg/L", "ConcentrateFlow_m3/h",
      "ConcentrateTDS_mg/L", "FinalPressure_bar">>

\* writer.writeheader(): the field names as one row
header_cells == [j \in 1..Len(fieldnames) |-> <<fieldnames[j]>>]

\* line 188: datetime.now().strftime("%Y-%m-%d %H:%M:%S"), second `t`
now_str(t) == <<"2026-11-02 04:43:", DigitChar(t \div 10), DigitChar(t % 10)>>

\* lines 189-202 and DictWriter.writerow: the cells of the row, in field order
row_cells(stamp, result_dict) ==
    [j \in 1..Len(fieldnames) |->
        IF j = 1 THEN stamp ELSE PyStr(result_dict[fieldnames[j]])]

\* the mappings simulate_ro_logmean returns, with the Python type of each value
typed_result(product, feed_flow, num_elements, permeate) ==
    [k \in ResultKeys |->
        CASE k = "Selected_Product" -> PyStrVal(product)
          [] k = "FeedFlow_m3/h" -> PyFloat(feed_flow)
          [] k = "FeedTDS_mg/L" -> PyFloat(Num(200, 0))
          [] k = "Temperature_degC" -> PyFloat(Num(25, 0))
          [] k = "Number_of_Elements" -> PyInt(num_elements)
          [] k = "PermeateFlow_m3/h" -> PyFloat(permeate)
          [] k = "Recovery_%" ->
                PyFloat(recovery_pct(permeate, feed_flow))
          [] k = "PermeateTDS_mg/L" -> PyFloat(Num(10, 447979))
          [] k = "ConcentrateFlow_m3/h" -> PyFloat(feed_flow - permeate)
          [] k = "ConcentrateTDS_mg/L" -> PyFloat(Num(215, 99517))
          [] OTHER -> PyFloat(Num(14, 300000))]

\* product names as the registry may spell them
HistProducts ==
    {<<"CPA5-LD">>,
     <<"ESPA2-MAX", COMMA, " 8", QUOTE>>,
     <<"ESPA2", LF, "LD">>,
     <<"ESPA2", CR, "LD">>}

HistResults ==
    {typed_result(p, Num(30, 0), 4, Num(2, 116213)) : p \in HistProducts}
        \cup {typed_result(<<"CPA5-LD">>, 0, 1, Num(0, 549430)),
              typed_result(<<"CPA5-LD">>, Num(0, 500000), 12, Num(0, 25))}

ConcResults ==
    {typed_result(<<"CPA5-LD">>, Num(30, 0), 4, Num(2, 116213)),
     typed_result(<<"ESPA2-LD">>, 0, 1, Num(0, 549430))}

\* lines 213-228
load_calculation_history(exists, chars) ==
    IF ~exists THEN <<>>
    ELSE dict_rows(csv_reader(universal_newlines(chars)))

Idle == [pc |-> "idle"]

\* lines 167-211 in one piece: a call no other call interleaves with
append_result_to_csv(result_dict) ==
    /\ Len(appended) < MaxAppends
    /\ LET stamp == now_str(clock)
           head == IF file_exists THEN <<>> ELSE csv_line(header_cells)
       IN  /\ file_chars' =
                file_chars \o head \o csv_line(row_cells(stamp, result_dict))
           /\ appended' =
                Append(appended, [stamp |-> stamp, result |-> result_dict])
    /\ file_exists' = TRUE
    /\ UNCHANGED <<clock, sess, loaded, simvars>>

\* app.py line 54: the history is loaded
view_history ==
    /\ loaded' = load_calculation_history(file_exists, file_chars)
    /\ UNCHANGED <<file_exists, file_chars, clock, sess, appended, simvars>>

\* a second passes
tick ==
    /\ clock < MaxClock
    /\ clock' = clock + 1
    /\ UNCHANGED <<file_exists, file_chars, sess, appended, loaded, simvars>>

\* lines 188-202: session s enters append_result_to_csv and builds its row
append_enter(s, result_dict) ==
    /\ sess[s].pc = "idle"
    /\ sess' = [sess EXCEPT ![s] =
                  [pc |-> "isfile", stamp |-> now_str(clock),
                   result |-> result_dict]]
    /\ UNCHANGED <<file_exists, file_chars, clock, appended, loaded, simvars>>

\* line 205: file_exists = os.path.isfile(csv_path)
append_isfile(s) ==
    /\ sess[s].pc = "isfile"
    /\ sess' = [sess EXCEPT ![s] =
                  [pc |-> "open", stamp |-> @.stamp, result |-> @.result,
                   seen |-> file_exists]]
    /\ UNCHANGED <<file_exists, file_chars, clock, appended, loaded, simvars>>

\* line 206: open(csv_path, mode='a') creates the file when it is absent
append_open(s) ==
    /\ sess[s].pc = "open"
    /\ file_exists' = TRUE
    /\ sess' = [sess EXCEPT ![s] =
                  [pc |-> "header", stamp |-> @.stamp, result |-> @.result,
                   seen |-> @.seen, buffer |-> <<>>]]
    /\ UNCHANGED <<file_chars, clock, appended, loaded, simvars>>

\* lines 207-210: the header goes to the file object's buffer
append_header(s) ==
    /\ sess[s].pc = "header"
    /\ sess' = [sess EXCEPT ![s].pc = "row",
                            ![s].buffer =
                                IF sess[s].seen THEN @
                                ELSE @ \o csv_line(header_cells)]
    /\ UNCHANGED <<file_exists, file_chars, clock, appended, loaded, simvars>>

\* line 211: the row goes to the buffer
append_row(s) ==
    /\ sess[s].pc = "row"
    /\ sess' = [sess EXCEPT ![s].pc = "close",
                            ![s].buffer =
                                @ \o csv_line(row_cells(sess[s].stamp,
                                                        sess[s].result))]
    /\ UNCHANGED <<file_exists, file_chars, clock, appended, loaded, simvars>>

\* leaving the with block: the buffer is written at the end of the file
append_close(s) ==
    /\ sess[s].pc = "close"
    /\ file_chars' = file_chars \o sess[s].buffer
    /\ appended' = Append(appended, [stamp |-> sess[s].stamp,
                                     result |-> sess[s].result])
    /\ sess' = [sess EXCEPT ![s] = Idle]
    /\ UNCHANGED <<file_exists, clock, loaded, simvars>>

SimIdle ==
    /\ pc = "off"
    /\ args = [product_name |-> ""]
    /\ env = NoEnv
    /\ el = NoEl
    /\ ret = <<>>
    /\ work = NoWork
    /\ result = NoResult
    /\ raised = "none"

InitHist ==
    /\ SimIdle
    /\ HistIdle

NextHist ==
    \/ \E r \in HistResults : append_result_to_csv(r)
    \/ view_history
    \/ tick

SpecHist == InitHist /\ [][NextHist]_vars

InitConc ==
    /\ SimIdle
    /\ file_exists = FALSE
    /\ file_chars = <<>>
    /\ clock = 0
    /\ sess = [s \in 1..NumSessions |-> Idle]
    /\ appended = <<>>
    /\ loaded = <<>>

\* every session runs one append, then idles
NextConc ==
    \/ \E s \in 1..NumSessions, r \in ConcResults :
          /\ Len(appended) + Cardinality({x \in 1..NumSessions :
                                            sess[x].pc # "idle"}) < MaxAppends
          /\ append_enter(s, r)
    \/ \E s \in 1..NumSessions : append_isfile(s)
    \/ \E s \in 1..NumSessions : append_open(s)
    \/ \E s \in 1..NumSessions : append_header(s)
    \/ \E s \in 1..NumSessions : append_row(s)
    \/ \E s \in 1..NumSessions : append_close(s)
    \/ view_history

SpecConc == InitConc /\ [][NextConc]_vars

\* ------------------------------------------------------------------------
\* Properties of the history store
\* ------------------------------------------------------------------------

\* the record a load is to return for an appended row: every field as text
expected_record(a) ==
    [k \in {<<fieldnames[j]>> : j \in 1..Len(fieldnames)} |->
        IF k = <<"Timestamp">> THEN a.stamp ELSE PyStr(a.result[k[1]])]

history_now == load_calculation_history(file_exists, file_chars)

\* C5: history round trip, append-only: after any sequence of appends a load
\* returns one record per append, in append order, every field and the
\* timestamp preserved; the empty sequence when there is no history.
C5_HistoryRoundTrip ==
    /\ Len(history_now) = Len(appended)
    /\ \A n \in 1..Len(appended) :
          n <= Len(history_now) => history_now[n] = expected_record(appended[n])

\* the round trip does hold for the rows whose fields hold no carriage return
RoundTripWithoutCarriageReturn ==
    /\ Len(history_now) = Len(appended)
    /\ \A n \in 1..Len(appended) :
          ~Has(appended[n].result["Selected_Product"].v, {CR}) =>
              history_now[n] = expected_record(appended[n])

AllIdle == \A s \in DOMAIN sess : sess[s].pc = "idle"

HeaderCount ==
    LET rows == csv_reader(universal_newlines(file_chars))
    IN  Cardinality({n \in 1..Len(rows) : rows[n] = header_cells})

\* C9: concurrent appends are serialized: whatever the interleaving of the
\* steps of concurrent append calls, the file ends with exactly one header
\* and a load returns exactly one record per append call.
C9_ConcurrentAppendsSerialized ==
    (AllIdle /\ Len(appended) > 0) =>
        /\ HeaderCount = 1
        /\ Len(history_now) = Len(appended)
        /\ \A n \in 1..Len(appended) :
              n <= Len(history_now) =>
                  history_now[n] = expected_record(appended[n])

\* appends that do not overlap leave one header and one record per call
SerialAppendsKeepOneHeader ==
    Len(appended) > 0 =>
        /\ HeaderCount = 1
        /\ Len(history_now) = Len(appended)

====
